---- MODULE Spec2Model ----
(***************************************************************************)
(* Model of the Azure Blob Storage snapstore (pkg/snapstore/abs_snapstore.go) *)
(* of etcd-backup-restore: the chunked, parallel Save, and the credential   *)
(* resolution / credential modification-time query.                         *)
(***************************************************************************)
EXTENDS Integers, Sequences, FiniteSets, TLC

\* ------------------------------------------------------------------ bounds
\* Largest staged snapshot size (bytes) that io.Copy may report.
MaxSize == 3
\* Largest minChunkSize the store is configured with (always > 0).
MaxChunkSize == 2
\* Largest maxParallelChunkUploads the store is configured with (always > 0).
MaxParallel == 2
\* Largest number of pages a listing is served in.
MaxPages == 3
\* Largest number of blob items in one page.
MaxPageLen == 2
\* Largest number of items a listing serves beyond one item per blob.
MaxRepeats == 1
\* Saves run one after the other on one fake container client.
MaxSaves == 2

\* ------------------------------------------------------------- Save state
VARIABLES
    pc,             \* position of the goroutine running Save
    chunkSize,      \* a.minChunkSize
    maxParallelChunkUploads, \* a.maxParallelChunkUploads
    rcClosed,       \* the caller's stream rc has been closed
    tmpfile,        \* "none" | "open" | "removed": the local temporary file
    size,           \* bytes copied into the temporary file
    noOfChunks,     \* Save's noOfChunks
    spawned,        \* loop variable i of the worker-spawning loop
    offset,         \* loop variable offset of the enumeration loop
    index,          \* loop variable index of the enumeration loop
    submitted,      \* the chunks sent into chunkUploadCh so far, in order
    chunkUploadCh,  \* buffered channel of chunks (capacity noOfChunks)
    chunkChClosed,  \* chunkUploadCh has been closed
    resCh,          \* buffered channel of chunkUploadResult (capacity noOfChunks)
    produced,       \* produced[id]: results sent into resCh for the chunk with this id
    cancelCh,       \* TRUE once cancelCh has been closed
    cancelCloses,   \* number of times cancelCh has been closed
    drained,        \* results the collector has taken after the first failed one
    worker,         \* worker[w]: state and held chunk of goroutine w
    received,       \* results the collector has taken from resCh
    snapshotErr,    \* the collector's return value (NoResult for nil)
    staged,         \* blocks staged at the backend: {[id, offset, size]}
    stageCalled,    \* some StageBlock call has been made
    stageFailed,    \* some StageBlock call has returned an error
    outOfOrder,     \* some upload completed while a chunk of a lower id was in flight
    commitCalls,    \* the block lists passed to CommitBlockList, in order
    blob,           \* the target object: Prior, or the blocks it was committed from
    saveErr,        \* "running" | "nil" | "tempfile" | "copy" | "chunk" | "commit"
    errChunk        \* the chunk id and offset formatted into Save's chunk error

saveVars == << pc, chunkSize, maxParallelChunkUploads, rcClosed, tmpfile, size,
               noOfChunks, spawned, offset, index, submitted, chunkUploadCh,
               chunkChClosed, resCh, produced, cancelCh, cancelCloses, drained,
               worker, received, snapshotErr, staged, stageCalled, stageFailed, outOfOrder,
               commitCalls, blob, saveErr, errChunk >>

\* ------------------------------------------------------ credential state
VARIABLES
    env,            \* the process environment: variable name -> Unset or a path
    jsonFile,       \* the file the JSON-file variable names: "missing" | "malformed" | "valid"
    dirReadable,    \* os.ReadDir of the credential directory succeeds
    dirJSON,        \* the *.json file in the directory: "none" | "malformed" | "valid"
    storageAccount, \* the file storageAccount in the directory: "missing" | "empty" | "present"
    storageKey,     \* the file storageKey in the directory: "missing" | "empty" | "present"
    credRes,        \* what getCredentials returned
    lmRes           \* what GetABSCredentialsLastModifiedTime returned

credVars == << env, jsonFile, dirReadable, dirJSON, storageAccount, storageKey,
               credRes, lmRes >>

\* ------------------------------------------- List / Fetch / Delete state
VARIABLES
    a_prefix,       \* a.prefix: the store prefix, as its "/"-separated tokens
    objects,        \* the names of the blobs in the container
    lpc,            \* position of the goroutine running List
    pagerPages,     \* number of pages the pager of this List exposes
    fetches,        \* NextPage calls List has made
    listed,         \* how many times each name came in the pages fetched so far
    snapList,       \* List's snapList
    listRes,        \* what List returned
    opRes           \* what the last Fetch or Delete returned

storeVars == << a_prefix, objects, lpc, pagerPages, fetches, listed, snapList,
                listRes, opRes >>

\* --------------------------------------------------- endpoint URI state
VARIABLES
    emulatorEnabled, \* the value of AZURE_EMULATOR_ENABLED, or Unset
    endpoint,        \* the value of AZURE_STORAGE_API_ENDPOINT, or Unset
    accountName,     \* the argument of ConstructABSURI
    uriRes           \* what ConstructABSURI returned

uriVars == << emulatorEnabled, endpoint, accountName, uriRes >>

\* ------------------------------------------- fake container client state
VARIABLES
    objectMap,      \* fakeABSContainerClient.objects, by blob name
    blobClients,    \* fakeABSContainerClient.blobClients, by blob name
    fakeClients,    \* every fakeBlockBlobClient made so far: [name, staging]
    bpc,            \* "idle" | "stage" | "done": position of the Save on the fake
    target,         \* the blob name of the Save on the fake
    chunks,         \* the number of chunks of that Save
    stagedChunks,   \* the chunks whose StageBlock call has returned
    handed,         \* the clients NewBlockBlobClient returned to that Save, in order
    assembled,      \* the staging area CommitBlockList found
    saves           \* the Saves started on the fake so far

clientVars == << objectMap, blobClients, fakeClients, bpc, target, chunks, stagedChunks,
                 handed, assembled, saves >>

\* Everything a Save leaves alone.
nonSaveVars == << credVars, storeVars, uriVars, clientVars >>

vars == << saveVars, credVars, storeVars, uriVars, clientVars >>

\* ---------------------------------------------------------------- helpers
Workers == 1 .. (MaxParallel + 1)

NoChunk == [offset |-> -1, size |-> 0, id |-> 0]
NoResult == [chunk |-> NoChunk, err |-> "nil"]
\* The target object before this Save: absent, or an earlier snapshot.
Prior == [state |-> "prior", blocks |-> << >>]

\* fmt.Sprintf("%010d", n) as ASCII bytes: decimal digits, zero-padded to 10.
RECURSIVE DecimalDigits(_)
DecimalDigits(n) ==
    IF n < 10 THEN << 48 + n >>
    ELSE Append(DecimalDigits(n \div 10), 48 + (n % 10))

RECURSIVE ZeroPad(_, _)
ZeroPad(s, width) ==
    IF Len(s) >= width THEN s ELSE ZeroPad(<< 48 >> \o s, width)

Sprintf010d(n) == ZeroPad(DecimalDigits(n), 10)

\* base64.StdEncoding.EncodeToString: sextets 0..63, and 64 for the '=' padding.
RECURSIVE Base64Encode(_)
Base64Encode(bytes) ==
    IF Len(bytes) = 0 THEN << >>
    ELSE IF Len(bytes) = 1 THEN
        << bytes[1] \div 4, (bytes[1] % 4) * 16, 64, 64 >>
    ELSE IF Len(bytes) = 2 THEN
        << bytes[1] \div 4,
           (bytes[1] % 4) * 16 + (bytes[2] \div 16),
           (bytes[2] % 16) * 4, 64 >>
    ELSE
        << bytes[1] \div 4,
           (bytes[1] % 4) * 16 + (bytes[2] \div 16),
           (bytes[2] % 16) * 4 + (bytes[3] \div 64),
           bytes[3] % 64 >>
        \o Base64Encode(SubSeq(bytes, 4, Len(bytes)))

\* blockID := base64(fmt.Sprintf("%010d", partNumber))
BlockID(partNumber) == Base64Encode(Sprintf010d(partNumber))

\* The chunk count without the increment for a remainder (mutation of NoOfChunks).
NoOfChunksTruncated(s, c) == s \div c

\* The chunk count with the increment made unconditionally (mutation of NoOfChunks).
NoOfChunksPlusOne(s, c) == (s \div c) + 1

\* noOfChunks = size / chunkSize, plus one when size % chunkSize != 0.
NoOfChunks(s, c) == (s \div c) + (IF s % c # 0 THEN 1 ELSE 0)

\* The block list numbered from 0 (mutation of BlockList).
BlockListFromZero(n) == [partNumber \in 1 .. n |-> BlockID(partNumber - 1)]

\* The block list Save builds: partNumber = 1 .. noOfChunks, in that order.
BlockList(n) == [partNumber \in 1 .. n |-> BlockID(partNumber)]

\* ------------------------------------------------------ credential names
absCredentialDirectory == "AZURE_APPLICATION_CREDENTIALS"
absCredentialJSONFile == "AZURE_APPLICATION_CREDENTIALS_JSON"

\* The values getEnvPrefixString yields: destination and source store.
EnvPrefixes == {"", "SOURCE_"}
EnvNames == {p \o n : p \in EnvPrefixes, n \in {absCredentialDirectory, absCredentialJSONFile}}

Unset == "<unset>"
JSONFilePath == "/creds/credentials.json"
DirPath == "/creds/dir"

\* The credentials each source holds; distinct, so that a result tells its source.
JSONFileCredentials == [StorageAccount |-> "accountOfJSONFile", SecretKey |-> "keyOfJSONFile"]
DirJSONCredentials == [StorageAccount |-> "accountOfDirJSON", SecretKey |-> "keyOfDirJSON"]
NoCredentials == [StorageAccount |-> "", SecretKey |-> ""]

NoSource == [kind |-> "none", var |-> ""]
NotCalled == [called |-> FALSE, source |-> NoSource, err |-> FALSE,
              account |-> "", key |-> "", prefix |-> ""]
LMNotCalled == [called |-> FALSE, source |-> NoSource, err |-> FALSE, files |-> {}]

\* ------------------------------------------------------------------- Init
SaveStart(c, p) ==
    /\ pc = "start"
    /\ chunkSize = c
    /\ maxParallelChunkUploads = p
    /\ rcClosed = FALSE
    /\ tmpfile = "none"
    /\ size = 0
    /\ noOfChunks = 0
    /\ spawned = 0
    /\ offset = 0
    /\ index = 1
    /\ submitted = << >>
    /\ chunkUploadCh = << >>
    /\ chunkChClosed = FALSE
    /\ resCh = << >>
    /\ produced = [id \in 1 .. MaxSize |-> 0]
    /\ cancelCh = FALSE
    /\ cancelCloses = 0
    /\ drained = 0
    /\ worker = [w \in Workers |-> [state |-> "notstarted", chunk |-> NoChunk, err |-> "nil"]]
    /\ received = 0
    /\ snapshotErr = NoResult
    /\ staged = {}
    /\ stageCalled = FALSE
    /\ stageFailed = FALSE
    /\ outOfOrder = FALSE
    /\ commitCalls = << >>
    /\ blob = Prior
    /\ saveErr = "running"
    /\ errChunk = [id |-> 0, offset |-> -1]

\* No credential variable set, no credential file present, nothing resolved.
CredentialsIdle ==
    /\ env = [n \in EnvNames |-> Unset]
    /\ jsonFile = "missing"
    /\ dirReadable = FALSE
    /\ dirJSON = "none"
    /\ storageAccount = "missing"
    /\ storageKey = "missing"
    /\ credRes = NotCalled
    /\ lmRes = LMNotCalled

\* ----------------------------------------------------------- blob names
\* A blob name is the sequence of its "/"-separated tokens.
backupVersionV1 == "v1"
backupVersionV2 == "v2"

\* A full snapshot written under the current naming version.
V2Full == << "etcd", "v2", "Full-0-2-1" >>
\* An incremental snapshot written under the legacy naming version.
V1Incr == << "etcd", "v1", "Backup-1", "Incr-3-4-2" >>
\* A name with a version tag whose start revision is no number.
V2Bad == << "etcd", "v2", "Full-x-2-1" >>
\* A blob without a version tag.
NoTag == << "etcd", "readme" >>
\* A snapshot of another instance sharing the container.
Other == << "other", "v2", "Full-0-2-1" >>

BlobNames == {V2Full, V1Incr, V2Bad, NoTag, Other}

\* The prefixes a store is configured with: the last token is the backup version.
StorePrefixes == {<< "etcd", "v2" >>, << "v2" >>}

NoListResult == [called |-> FALSE, err |-> FALSE, list |-> << >>]
NoOpResult == [op |-> "none", blobName |-> << >>, err |-> FALSE, body |-> << >>]
NoURIResult == [called |-> FALSE, err |-> FALSE, url |-> ""]

\* No List, Fetch or Delete is running.
StoreIdle ==
    /\ a_prefix = << "etcd", "v2" >>
    /\ objects = {}
    /\ lpc = "idle"
    /\ pagerPages = 0
    /\ fetches = 0
    /\ listed = [n \in BlobNames |-> 0]
    /\ snapList = << >>
    /\ listRes = NoListResult
    /\ opRes = NoOpResult

\* ConstructABSURI has not been called.
URIIdle ==
    /\ emulatorEnabled = Unset
    /\ endpoint = Unset
    /\ accountName = "account"
    /\ uriRes = NoURIResult

\* The blob names a Save on the fake container client may target.
TargetNames == {"Full-1-2", "Incr-3-4"}

\* objects[blobName] is missing.
NoObject == [kind |-> "none", client |-> 0]
\* objects[blobName] points at bytes the test put there.
GivenObject == [kind |-> "bytes", client |-> 0]
\* blobClients[blobName] is missing.
NoClient == 0

\* A fake container client without objects; nothing is saved to it.
ClientsIdle ==
    /\ objectMap = [n \in TargetNames |-> NoObject]
    /\ blobClients = [n \in TargetNames |-> NoClient]
    /\ fakeClients = << >>
    /\ bpc = "idle"
    /\ target = "Full-1-2"
    /\ chunks = 0
    /\ stagedChunks = {}
    /\ handed = << >>
    /\ assembled = << >>
    /\ saves = 0

\* A Save on a store with any configured chunk size and parallelism.
Init ==
    /\ \E c \in 1 .. MaxChunkSize, p \in 1 .. MaxParallel : SaveStart(c, p)
    /\ CredentialsIdle
    /\ StoreIdle
    /\ URIIdle
    /\ ClientsIdle

\* --------------------------------------------------------- Save: staging
\* defer func() { tmpfile.Close(); os.Remove(tmpfile.Name()) }()
DeferredCleanup == tmpfile' = "removed"

\* os.CreateTemp fails without closing the stream (mutation of SaveCreateTemp).
SaveCreateTempLeaksStream ==
    /\ pc = "start"
    /\ \/ /\ pc' = "done"
          /\ saveErr' = "tempfile"
          /\ UNCHANGED errChunk
          /\ UNCHANGED << tmpfile, rcClosed >>
       \/ /\ tmpfile' = "open"
          /\ pc' = "copy"
          /\ UNCHANGED << saveErr, errChunk, rcClosed >>
    /\ UNCHANGED << nonSaveVars, submitted, chunkSize, maxParallelChunkUploads, size, noOfChunks,
                    spawned, offset, index, chunkUploadCh, chunkChClosed, resCh, produced,
                    cancelCh, cancelCloses, drained, worker, received, snapshotErr, staged,
                    stageCalled,
                    stageFailed, outOfOrder, commitCalls, blob >>

\* os.CreateTemp: on failure rc.Close() and return; otherwise the deferred
\* cleanup is registered and Save goes on to io.Copy.
SaveCreateTemp ==
    /\ pc = "start"
    /\ \/ /\ rcClosed' = TRUE
          /\ pc' = "done"
          /\ saveErr' = "tempfile"
          /\ UNCHANGED errChunk
          /\ UNCHANGED tmpfile
       \/ /\ tmpfile' = "open"
          /\ pc' = "copy"
          /\ UNCHANGED << saveErr, errChunk, rcClosed >>
    /\ UNCHANGED << nonSaveVars, submitted, chunkSize, maxParallelChunkUploads, size, noOfChunks,
                    spawned, offset, index, chunkUploadCh, chunkChClosed, resCh, produced,
                    cancelCh, cancelCloses, drained, worker, received, snapshotErr, staged,
                    stageCalled,
                    stageFailed, outOfOrder, commitCalls, blob >>

\* size, err := io.Copy(tmpfile, rc); rc.Close(); on error return (the
\* deferred cleanup runs).
SaveCopy ==
    /\ pc = "copy"
    /\ \E s \in 0 .. MaxSize, copyOk \in BOOLEAN :
          /\ size' = s
          /\ rcClosed' = TRUE
          /\ IF copyOk
             THEN /\ pc' = "chunks"
                  /\ UNCHANGED << tmpfile, saveErr, errChunk >>
             ELSE /\ DeferredCleanup
                  /\ pc' = "done"
                  /\ saveErr' = "copy"
                  /\ UNCHANGED errChunk
    /\ UNCHANGED << nonSaveVars, submitted, chunkSize, maxParallelChunkUploads, noOfChunks,
                    spawned, offset, index, chunkUploadCh, chunkChClosed, resCh, produced,
                    cancelCh, cancelCloses, drained, worker, received, snapshotErr, staged,
                    stageCalled,
                    stageFailed, outOfOrder, commitCalls, blob >>

\* noOfChunks is computed and the channels are made.
SaveComputeChunks ==
    /\ pc = "chunks"
    /\ noOfChunks' = NoOfChunks(size, chunkSize)
    /\ chunkUploadCh' = << >>
    /\ resCh' = << >>
    /\ cancelCh' = FALSE
    /\ cancelCloses' = 0
    /\ drained' = 0
    /\ spawned' = 0
    /\ pc' = "spawn"
    /\ UNCHANGED << nonSaveVars, submitted, chunkSize, maxParallelChunkUploads,
                    rcClosed, tmpfile, size,
                    offset, index, chunkChClosed, worker, received, snapshotErr,
                    staged, stageCalled, stageFailed, outOfOrder, commitCalls,
                    blob, saveErr, errChunk, produced >>

\* The spawning loop with an off-by-one bound (mutation of SaveSpawn).
SaveSpawnOneTooMany ==
    /\ pc = "spawn"
    /\ IF spawned <= maxParallelChunkUploads
       THEN /\ worker' = [worker EXCEPT ![spawned + 1].state = "select"]
            /\ spawned' = spawned + 1
            /\ UNCHANGED << pc, offset, index >>
       ELSE /\ pc' = "enqueue"
            /\ offset' = 0
            /\ index' = 1
            /\ UNCHANGED << worker, spawned >>
    /\ UNCHANGED << nonSaveVars, submitted, chunkSize, maxParallelChunkUploads,
                    rcClosed, tmpfile, size,
                    noOfChunks, chunkUploadCh, chunkChClosed, resCh, produced, cancelCh,
                    cancelCloses, drained,
                    received, snapshotErr, staged, stageCalled, stageFailed,
                    outOfOrder, commitCalls, blob, saveErr, errChunk >>

\* for i := uint(0); i < a.maxParallelChunkUploads; i++ { wg.Add(1); go a.blockUploader(...) }
SaveSpawn ==
    /\ pc = "spawn"
    /\ IF spawned < maxParallelChunkUploads
       THEN /\ worker' = [worker EXCEPT ![spawned + 1].state = "select"]
            /\ spawned' = spawned + 1
            /\ UNCHANGED << pc, offset, index >>
       ELSE /\ pc' = "enqueue"
            /\ offset' = 0
            /\ index' = 1
            /\ UNCHANGED << worker, spawned >>
    /\ UNCHANGED << nonSaveVars, submitted, chunkSize, maxParallelChunkUploads,
                    rcClosed, tmpfile, size,
                    noOfChunks, chunkUploadCh, chunkChClosed, resCh, produced, cancelCh,
                    cancelCloses, drained,
                    received, snapshotErr, staged, stageCalled, stageFailed,
                    outOfOrder, commitCalls, blob, saveErr, errChunk >>

\* for offset, index := int64(0), 1; offset < size; offset += chunkSize {
\*     chunkUploadCh <- chunk{offset, chunkSize, index}; index++ }
\* The send blocks while the channel holds noOfChunks chunks.
SaveEnqueue ==
    /\ pc = "enqueue"
    /\ IF offset < size
       THEN /\ Len(chunkUploadCh) < noOfChunks
            /\ chunkUploadCh' = Append(chunkUploadCh,
                   [offset |-> offset, size |-> chunkSize, id |-> index])
            /\ submitted' = Append(submitted,
                   [offset |-> offset, size |-> chunkSize, id |-> index])
            /\ offset' = offset + chunkSize
            /\ index' = index + 1
            /\ UNCHANGED pc
       ELSE /\ pc' = "collect"
            /\ UNCHANGED << chunkUploadCh, submitted, offset, index >>
    /\ UNCHANGED << nonSaveVars, chunkSize, maxParallelChunkUploads, rcClosed, tmpfile, size,
                    noOfChunks, spawned, chunkChClosed, resCh, produced, cancelCh,
                    cancelCloses, drained, worker,
                    received, snapshotErr, staged, stageCalled, stageFailed,
                    outOfOrder, commitCalls, blob, saveErr, errChunk >>

\* ------------------------------------------------------ blockUploader
\* Variables no worker step touches.
saveOnly == << pc, submitted, chunkSize, maxParallelChunkUploads, rcClosed, tmpfile, size,
               noOfChunks, spawned, offset, index, chunkChClosed, cancelCh,
               cancelCloses, drained, received, snapshotErr, commitCalls, blob,
               saveErr, errChunk >>

\* A worker that has no stopCh case in its select (mutation of WorkerStop).
WorkerStopIgnored(w) ==
    /\ worker[w].state = "select"
    /\ cancelCh
    /\ FALSE
    /\ UNCHANGED << nonSaveVars, saveOnly, worker, chunkUploadCh, resCh, produced, staged,
                    stageCalled,
                    stageFailed, outOfOrder >>

\* select { case <-stopCh: return }: ready once cancelCh is closed.
WorkerStop(w) ==
    /\ worker[w].state = "select"
    /\ cancelCh
    /\ worker' = [worker EXCEPT ![w].state = "exited"]
    /\ UNCHANGED << nonSaveVars, saveOnly, chunkUploadCh, resCh, produced, staged, stageCalled,
                    stageFailed, outOfOrder >>

\* select { case chunk, ok := <-chunkUploadCh: if !ok { return } }: a receive
\* from the closed, drained channel.
WorkerQueueClosed(w) ==
    /\ worker[w].state = "select"
    /\ chunkChClosed
    /\ chunkUploadCh = << >>
    /\ worker' = [worker EXCEPT ![w].state = "exited"]
    /\ UNCHANGED << nonSaveVars, saveOnly, chunkUploadCh, resCh, produced, staged, stageCalled,
                    stageFailed, outOfOrder >>

\* select { case chunk, ok := <-chunkUploadCh: ... }: ready whenever a chunk is
\* queued. Go's select chooses among its ready cases at random, so this case
\* may be taken even when stopCh is closed too.
WorkerClaim(w) ==
    /\ worker[w].state = "select"
    /\ chunkUploadCh # << >>
    /\ worker' = [worker EXCEPT ![w] =
                    [state |-> "uploading", chunk |-> Head(chunkUploadCh), err |-> "nil"]]
    /\ chunkUploadCh' = Tail(chunkUploadCh)
    /\ UNCHANGED << nonSaveVars, saveOnly, resCh, produced, staged, stageCalled, stageFailed,
                    outOfOrder >>

\* The workers whose uploadBlock call is in flight.
InFlight == {w \in Workers : worker[w].state = "uploading"}

\* A section of chunkSize bytes whatever is left of the file (mutation of
\* SectionSize).
SectionSizeUncapped(fileSize, off, cSize) == cSize

\* The byte range uploadBlock reads: size = fileSize - offset, capped at chunkSize.
SectionSize(fileSize, off, cSize) ==
    IF fileSize - off > cSize THEN cSize ELSE fileSize - off

\* Part numbers counted from zero (mutation of PartNumber).
PartNumberFromZero(off, cSize) == off \div cSize

\* partNumber := (offset / chunkSize) + 1
PartNumber(off, cSize) == (off \div cSize) + 1

\* uploadBlock: file.Stat() may fail; otherwise StageBlock(blockID, section) is
\* called and succeeds or fails. A successful StageBlock (re)stages the block
\* under its identifier.
WorkerUpload(w) ==
    /\ worker[w].state = "uploading"
    /\ \E outcome \in {"nil", "stat", "stage"} :
        LET c == worker[w].chunk
            blockID == BlockID(PartNumber(c.offset, c.size))
        IN  /\ worker' = [worker EXCEPT
                            ![w].state = "send",
                            ![w].err = IF outcome = "nil" THEN "nil" ELSE "failed"]
            /\ stageCalled' = (stageCalled \/ outcome # "stat")
            /\ stageFailed' = (stageFailed \/ outcome = "stage")
            /\ staged' = IF outcome = "nil"
                         THEN {s \in staged : s.id # blockID} \cup
                              {[id |-> blockID, offset |-> c.offset,
                                size |-> SectionSize(size, c.offset, c.size)]}
                         ELSE staged
            /\ outOfOrder' = (outOfOrder \/ \E v \in InFlight : worker[v].chunk.id < c.id)
    /\ UNCHANGED << nonSaveVars, saveOnly, chunkUploadCh, resCh, produced >>

\* A worker sending the result of its chunk twice (mutation of WorkerSend).
WorkerSendTwice(w) ==
    /\ worker[w].state = "send"
    /\ Len(resCh) < noOfChunks
    /\ resCh' = Append(resCh, [chunk |-> worker[w].chunk, err |-> worker[w].err])
    /\ produced' = [produced EXCEPT ![worker[w].chunk.id] = @ + 2]
    /\ worker' = [worker EXCEPT ![w] = [state |-> "select", chunk |-> NoChunk, err |-> "nil"]]
    /\ UNCHANGED << nonSaveVars, saveOnly, chunkUploadCh, staged, stageCalled,
                    stageFailed, outOfOrder >>

\* errCh <- chunkUploadResult{err, &chunk}: blocks while resCh is full.
WorkerSend(w) ==
    /\ worker[w].state = "send"
    /\ Len(resCh) < noOfChunks
    /\ resCh' = Append(resCh, [chunk |-> worker[w].chunk, err |-> worker[w].err])
    /\ produced' = [produced EXCEPT ![worker[w].chunk.id] = @ + 1]
    /\ worker' = [worker EXCEPT ![w] = [state |-> "select", chunk |-> NoChunk, err |-> "nil"]]
    /\ UNCHANGED << nonSaveVars, saveOnly, chunkUploadCh, staged, stageCalled,
                    stageFailed, outOfOrder >>

blockUploader(w) ==
    \/ WorkerStop(w)
    \/ WorkerQueueClosed(w)
    \/ WorkerClaim(w)
    \/ WorkerUpload(w)
    \/ WorkerSend(w)

\* ------------------------------------------- collectChunkUploadError
\* The collector takes one result from resCh. The first failed result becomes
\* the return value and raises the cancellation signal (close(cancelCh)).
CollectReceive ==
    /\ pc = "collect"
    /\ resCh # << >>
    /\ received < noOfChunks
    /\ LET res == Head(resCh)
       IN  /\ resCh' = Tail(resCh)
           /\ received' = received + 1
           /\ IF res.err # "nil" /\ snapshotErr = NoResult
              THEN /\ snapshotErr' = res
                   /\ cancelCh' = TRUE
                   /\ cancelCloses' = cancelCloses + 1
              ELSE UNCHANGED << snapshotErr, cancelCh, cancelCloses >>
           /\ drained' = IF snapshotErr # NoResult THEN drained + 1 ELSE drained
    /\ UNCHANGED << nonSaveVars, submitted, pc, chunkSize, maxParallelChunkUploads,
                    rcClosed, tmpfile, size,
                    noOfChunks, spawned, offset, index, chunkUploadCh, chunkChClosed,
                    worker, staged, stageCalled, stageFailed, outOfOrder,
                    commitCalls, blob, saveErr, errChunk, produced >>

\* The collector returns: nil once all noOfChunks results were error-free (the
\* work queue is then closed, which releases the workers), or the first error
\* once the results of the uploads in flight have been drained.
CollectReturn ==
    /\ pc = "collect"
    /\ \/ /\ snapshotErr = NoResult
          /\ received = noOfChunks
          /\ chunkChClosed' = TRUE
       \/ /\ snapshotErr # NoResult
          /\ resCh = << >>
          /\ \A w \in Workers : worker[w].state \notin {"uploading", "send"}
          /\ UNCHANGED chunkChClosed
    /\ pc' = "wait"
    /\ UNCHANGED << nonSaveVars, submitted, chunkSize, maxParallelChunkUploads,
                    rcClosed, tmpfile, size,
                    noOfChunks, spawned, offset, index, chunkUploadCh, resCh, produced,
                    cancelCh, cancelCloses, drained, worker, received, snapshotErr, staged,
                    stageCalled,
                    stageFailed, outOfOrder, commitCalls, blob, saveErr, errChunk >>

collectChunkUploadError == CollectReceive \/ CollectReturn

\* --------------------------------------------------- Save: wait, commit
AllWorkersExited ==
    \A w \in Workers : worker[w].state \in {"notstarted", "exited"}

\* Save returns on a chunk error without waiting for its workers (mutation of
\* SaveWait).
SaveNoWait ==
    /\ pc = "wait"
    /\ IF snapshotErr # NoResult
       THEN /\ DeferredCleanup
            /\ saveErr' = "chunk"
            /\ errChunk' = [id |-> snapshotErr.chunk.id, offset |-> snapshotErr.chunk.offset]
            /\ pc' = "done"
       ELSE /\ AllWorkersExited
            /\ pc' = "commit"
            /\ UNCHANGED << tmpfile, saveErr, errChunk >>
    /\ UNCHANGED << nonSaveVars, submitted, chunkSize, maxParallelChunkUploads, rcClosed, size,
                    noOfChunks, spawned, offset, index, chunkUploadCh, chunkChClosed,
                    resCh, produced, cancelCh, cancelCloses, drained, worker, received,
                    snapshotErr, staged,
                    stageCalled, stageFailed, outOfOrder, commitCalls, blob >>

\* Save goes on to commit whatever the collector returned (mutation of SaveWait).
SaveWaitIgnoresError ==
    /\ pc = "wait"
    /\ AllWorkersExited
    /\ pc' = "commit"
    /\ UNCHANGED << nonSaveVars, submitted, chunkSize, maxParallelChunkUploads,
                    rcClosed, size, tmpfile,
                    noOfChunks, spawned, offset, index, chunkUploadCh, chunkChClosed,
                    resCh, produced, cancelCh, cancelCloses, drained, worker, received,
                    snapshotErr, staged,
                    stageCalled, stageFailed, outOfOrder, commitCalls, blob, saveErr, errChunk >>

\* Save formats its own loop variables into the chunk error instead of the
\* chunk of the collector's result (mutation of SaveWait).
SaveWaitReportsLoopVariables ==
    /\ pc = "wait"
    /\ AllWorkersExited
    /\ IF snapshotErr # NoResult
       THEN /\ DeferredCleanup
            /\ saveErr' = "chunk"
            /\ errChunk' = [id |-> index, offset |-> offset]
            /\ pc' = "done"
       ELSE /\ pc' = "commit"
            /\ UNCHANGED << tmpfile, saveErr, errChunk >>
    /\ UNCHANGED << nonSaveVars, submitted, chunkSize, maxParallelChunkUploads, rcClosed, size,
                    noOfChunks, spawned, offset, index, chunkUploadCh, chunkChClosed,
                    resCh, produced, cancelCh, cancelCloses, drained, worker, received,
                    snapshotErr, staged, stageCalled, stageFailed, outOfOrder,
                    commitCalls, blob >>

\* wg.Wait(); if snapshotErr != nil { return fmt.Errorf("failed uploading chunk,
\* id: %d, offset: %d, error: %w", snapshotErr.chunk.id, snapshotErr.chunk.offset, ...) }
SaveWait ==
    /\ pc = "wait"
    /\ AllWorkersExited
    /\ IF snapshotErr # NoResult
       THEN /\ DeferredCleanup
            /\ saveErr' = "chunk"
            /\ errChunk' = [id |-> snapshotErr.chunk.id, offset |-> snapshotErr.chunk.offset]
            /\ pc' = "done"
       ELSE /\ pc' = "commit"
            /\ UNCHANGED << tmpfile, saveErr, errChunk >>
    /\ UNCHANGED << nonSaveVars, submitted, chunkSize, maxParallelChunkUploads, rcClosed, size,
                    noOfChunks, spawned, offset, index, chunkUploadCh, chunkChClosed,
                    resCh, produced, cancelCh, cancelCloses, drained, worker, received,
                    snapshotErr, staged,
                    stageCalled, stageFailed, outOfOrder, commitCalls, blob >>

\* The block list is built and CommitBlockList is called; it succeeds (the
\* object becomes the listed blocks) or fails (the object is left as it was).
\* Save returns, and the deferred cleanup runs.
SaveCommit ==
    /\ pc = "commit"
    /\ LET blockList == BlockList(noOfChunks)
       IN  /\ commitCalls' = Append(commitCalls, blockList)
           /\ \E commitOk \in BOOLEAN :
                IF commitOk
                THEN /\ blob' = [state |-> "committed", blocks |-> blockList]
                     /\ saveErr' = "nil"
                     /\ UNCHANGED errChunk
                ELSE /\ UNCHANGED blob
                     /\ saveErr' = "commit"
                     /\ UNCHANGED errChunk
    /\ DeferredCleanup
    /\ pc' = "done"
    /\ UNCHANGED << nonSaveVars, submitted, chunkSize, maxParallelChunkUploads, rcClosed, size,
                    noOfChunks, spawned, offset, index, chunkUploadCh, chunkChClosed,
                    resCh, produced, cancelCh, cancelCloses, drained, worker, received,
                    snapshotErr, staged,
                    stageCalled, stageFailed, outOfOrder >>

Save ==
    \/ SaveCreateTemp
    \/ SaveCopy
    \/ SaveComputeChunks
    \/ SaveSpawn
    \/ SaveEnqueue
    \/ collectChunkUploadError
    \/ SaveWait
    \/ SaveCommit

Next ==
    \/ Save
    \/ \E w \in Workers : blockUploader(w)

Spec == Init /\ [][Next]_vars

\* Some goroutine that can take a step does take one: the scheduler runs the
\* runnable goroutines, and every backend call returns (each runs under its
\* own timeout).
FairSpec == Spec /\ WF_vars(Next)

\* ------------------------------------------------- credential resolution
DirJSONPath == DirPath \o "/credentials.json"
StorageAccountPath == DirPath \o "/storageAccount"
StorageKeyPath == DirPath \o "/storageKey"

\* os.LookupEnv
LookupEnv(name) == [value |-> env[name], isSet |-> env[name] # Unset]

\* Whether a path names an existing file (os.Stat / os.ReadFile succeed on it).
FileExists(path) ==
    CASE path = JSONFilePath -> jsonFile # "missing"
      [] path = DirJSONPath -> dirReadable /\ dirJSON # "none"
      [] path = StorageAccountPath -> dirReadable /\ storageAccount # "missing"
      [] path = StorageKeyPath -> dirReadable /\ storageKey # "missing"
      [] OTHER -> FALSE

\* readABSCredentialsJSON: os.ReadFile, then json.Unmarshal into absCredentials.
readABSCredentialsJSON(filename) ==
    IF ~FileExists(filename)
    THEN [err |-> TRUE, creds |-> NoCredentials]
    ELSE IF filename = JSONFilePath
         THEN IF jsonFile = "valid"
              THEN [err |-> FALSE, creds |-> JSONFileCredentials]
              ELSE [err |-> TRUE, creds |-> NoCredentials]
         ELSE IF dirJSON = "valid"
              THEN [err |-> FALSE, creds |-> DirJSONCredentials]
              ELSE [err |-> TRUE, creds |-> NoCredentials]

\* findFileWithExtensionInDir(dir, ".json"): the JSON file of the directory,
\* "" when it holds none, an error when the directory cannot be read.
findFileWithExtensionInDir(dir) ==
    IF ~dirReadable THEN [err |-> TRUE, file |-> ""]
    ELSE IF dirJSON = "none" THEN [err |-> FALSE, file |-> ""]
    ELSE [err |-> FALSE, file |-> DirJSONPath]

\* isABSConfigEmpty accepting a configuration with one field empty
\* (mutation of isABSConfigEmpty).
isABSConfigEmptyWhenBothEmpty(config) ==
    ~(config.SecretKey # "" \/ config.StorageAccount # "")

\* isABSConfigEmpty: nil only when both fields are non-empty.
isABSConfigEmpty(config) ==
    ~(config.SecretKey # "" /\ config.StorageAccount # "")

\* readABSCredentialFiles: os.ReadDir, then the files storageAccount and
\* storageKey that the directory lists are read as they are.
readABSCredentialFiles(dirname) ==
    IF ~dirReadable
    THEN [err |-> TRUE, creds |-> NoCredentials]
    ELSE LET absConfig ==
                [StorageAccount |-> IF storageAccount = "present" THEN "accountOfFiles" ELSE "",
                 SecretKey |-> IF storageKey = "present" THEN "keyOfFiles" ELSE ""]
         IN  IF isABSConfigEmpty(absConfig)
             THEN [err |-> TRUE, creds |-> NoCredentials]
             ELSE [err |-> FALSE, creds |-> absConfig]

\* What getCredentials returns, with the source it took it from.
CredResult(prefixString, kind, varName, r) ==
    [called |-> TRUE, prefix |-> prefixString,
     source |-> [kind |-> kind, var |-> varName],
     err |-> r.err,
     account |-> IF r.err THEN "" ELSE r.creds.StorageAccount,
     key |-> IF r.err THEN "" ELSE r.creds.SecretKey]

\* getCredentials probing the directory before the JSON-file variable
\* (mutation of getCredentials).
getCredentialsDirectoryFirst(prefixString) ==
    LET jsonEnv == LookupEnv(prefixString \o absCredentialJSONFile)
        dirEnv == LookupEnv(prefixString \o absCredentialDirectory)
        found == findFileWithExtensionInDir(dirEnv.value)
    IN  IF dirEnv.isSet
        THEN IF found.err
             THEN CredResult(prefixString, "dirjson", prefixString \o absCredentialDirectory,
                             [err |-> TRUE, creds |-> NoCredentials])
             ELSE IF found.file # ""
             THEN CredResult(prefixString, "dirjson", prefixString \o absCredentialDirectory,
                             readABSCredentialsJSON(found.file))
             ELSE CredResult(prefixString, "dirfiles", prefixString \o absCredentialDirectory,
                             readABSCredentialFiles(dirEnv.value))
        ELSE IF jsonEnv.isSet
        THEN CredResult(prefixString, "jsonfile", prefixString \o absCredentialJSONFile,
                        readABSCredentialsJSON(jsonEnv.value))
        ELSE CredResult(prefixString, "none", "", [err |-> TRUE, creds |-> NoCredentials])

\* getCredentials trying the next source when a JSON file cannot be read or
\* parsed (mutation of getCredentials).
getCredentialsFallsBack(prefixString) ==
    LET jsonEnv == LookupEnv(prefixString \o absCredentialJSONFile)
        dirEnv == LookupEnv(prefixString \o absCredentialDirectory)
        found == findFileWithExtensionInDir(dirEnv.value)
        fromJSONFile == readABSCredentialsJSON(jsonEnv.value)
        fromDirJSON == readABSCredentialsJSON(found.file)
    IN  IF jsonEnv.isSet /\ ~fromJSONFile.err
        THEN CredResult(prefixString, "jsonfile", prefixString \o absCredentialJSONFile,
                        fromJSONFile)
        ELSE IF dirEnv.isSet /\ ~found.err /\ found.file # "" /\ ~fromDirJSON.err
        THEN CredResult(prefixString, "dirjson", prefixString \o absCredentialDirectory,
                        fromDirJSON)
        ELSE IF dirEnv.isSet
        THEN CredResult(prefixString, "dirfiles", prefixString \o absCredentialDirectory,
                        readABSCredentialFiles(dirEnv.value))
        ELSE CredResult(prefixString, "none", "", [err |-> TRUE, creds |-> NoCredentials])

\* getCredentials(prefixString)
getCredentials(prefixString) ==
    LET jsonEnv == LookupEnv(prefixString \o absCredentialJSONFile)
        dirEnv == LookupEnv(prefixString \o absCredentialDirectory)
        found == findFileWithExtensionInDir(dirEnv.value)
    IN  IF jsonEnv.isSet
        THEN CredResult(prefixString, "jsonfile", prefixString \o absCredentialJSONFile,
                        readABSCredentialsJSON(jsonEnv.value))
        ELSE IF dirEnv.isSet
        THEN IF found.err
             THEN CredResult(prefixString, "dirjson", prefixString \o absCredentialDirectory,
                             [err |-> TRUE, creds |-> NoCredentials])
             ELSE IF found.file # ""
             THEN CredResult(prefixString, "dirjson", prefixString \o absCredentialDirectory,
                             readABSCredentialsJSON(found.file))
             ELSE CredResult(prefixString, "dirfiles", prefixString \o absCredentialDirectory,
                             readABSCredentialFiles(dirEnv.value))
        ELSE CredResult(prefixString, "none", "", [err |-> TRUE, creds |-> NoCredentials])

\* ------------------------------------------- credential modification time
\* getJSONCredentialModifiedTime(dir): the modification time of the JSON file
\* of the directory, the zero time when it holds none.
getJSONCredentialModifiedTime(dir) ==
    LET found == findFileWithExtensionInDir(dir)
    IN  IF found.err THEN [err |-> TRUE, isZero |-> TRUE, files |-> {}]
        ELSE IF found.file = "" THEN [err |-> FALSE, isZero |-> TRUE, files |-> {}]
        ELSE [err |-> FALSE, isZero |-> FALSE, files |-> {found.file}]

\* getLatestCredentialsModifiedTime(files): the latest modification time of
\* the files, an error when one of them cannot be stat-ed.
getLatestCredentialsModifiedTime(files) ==
    IF \E f \in files : ~FileExists(f)
    THEN [err |-> TRUE, files |-> {}]
    ELSE [err |-> FALSE, files |-> files]

LMResult(kind, varName, err, files) ==
    [called |-> TRUE, source |-> [kind |-> kind, var |-> varName],
     err |-> err, files |-> files]

\* GetABSCredentialsLastModifiedTime()
GetABSCredentialsLastModifiedTime ==
    LET dirEnv == LookupEnv(absCredentialDirectory)
        jsonEnv == LookupEnv(absCredentialJSONFile)
        modificationTimeStamp == getJSONCredentialModifiedTime(dirEnv.value)
        dirStamp == getLatestCredentialsModifiedTime({StorageKeyPath, StorageAccountPath})
        fileStamp == getLatestCredentialsModifiedTime({jsonEnv.value})
    IN  IF dirEnv.isSet /\ modificationTimeStamp.err
        THEN LMResult("dirjson", absCredentialDirectory, TRUE, {})
        ELSE IF dirEnv.isSet /\ ~modificationTimeStamp.isZero
        THEN LMResult("dirjson", absCredentialDirectory, FALSE, modificationTimeStamp.files)
        ELSE IF dirEnv.isSet
        THEN LMResult("dirfiles", absCredentialDirectory, dirStamp.err, dirStamp.files)
        ELSE IF jsonEnv.isSet
        THEN LMResult("jsonfile", absCredentialJSONFile, fileStamp.err, fileStamp.files)
        ELSE LMResult("none", "", TRUE, {})

\* ---------------------------------------------------- credential actions
\* A store is constructed: NewABSSnapStore calls getCredentials with the
\* prefix of its direction.
ResolveCredentials ==
    /\ ~credRes.called
    /\ \E prefixString \in EnvPrefixes : credRes' = getCredentials(prefixString)
    /\ UNCHANGED << saveVars, clientVars, storeVars, uriVars, env, jsonFile, dirReadable, dirJSON,
                    storageAccount,
                    storageKey, lmRes >>

\* The rotation watcher queries the credential modification time.
QueryLastModified ==
    /\ ~lmRes.called
    /\ lmRes' = GetABSCredentialsLastModifiedTime
    /\ UNCHANGED << saveVars, clientVars, storeVars, uriVars, env, jsonFile, dirReadable, dirJSON,
                    storageAccount,
                    storageKey, credRes >>

\* Any environment and any credential files; an unreadable directory holds
\* nothing that can be seen.
CredInit ==
    /\ SaveStart(1, 1)
    /\ ClientsIdle
    /\ StoreIdle
    /\ URIIdle
    /\ env \in {e \in [EnvNames -> {Unset, JSONFilePath, DirPath}] :
                  \A p \in EnvPrefixes :
                      /\ e[p \o absCredentialJSONFile] \in {Unset, JSONFilePath}
                      /\ e[p \o absCredentialDirectory] \in {Unset, DirPath}}
    /\ jsonFile \in {"missing", "malformed", "valid"}
    /\ dirReadable \in BOOLEAN
    /\ dirJSON \in {"none", "malformed", "valid"}
    /\ storageAccount \in {"missing", "empty", "present"}
    /\ storageKey \in {"missing", "empty", "present"}
    /\ (~dirReadable =>
            dirJSON = "none" /\ storageAccount = "missing" /\ storageKey = "missing")
    /\ credRes = NotCalled
    /\ lmRes = LMNotCalled

CredNext == ResolveCredentials \/ QueryLastModified

CredSpec == CredInit /\ [][CredNext]_vars

\* ================================================================== List
\* strings.HasPrefix, on tokens.
HasPrefix(name, prefix) ==
    /\ Len(prefix) <= Len(name)
    /\ SubSeq(name, 1, Len(prefix)) = prefix

\* strings.TrimPrefix, on tokens.
TrimPrefix(name, prefix) ==
    IF HasPrefix(name, prefix) THEN SubSeq(name, Len(prefix) + 1, Len(name)) ELSE name

\* path.Join: the non-empty elements, one separator between them.
PathJoin(elems) ==
    LET RECURSIVE Flatten(_)
        Flatten(es) == IF es = << >> THEN << >> ELSE Head(es) \o Flatten(Tail(es))
    IN  Flatten(elems)

\* strings.Contains(name, backupVersionV1) || strings.Contains(name, backupVersionV2)
HasVersionTag(name) ==
    \E i \in 1 .. Len(name) : name[i] \in {backupVersionV1, backupVersionV2}

\* The listing prefix keeping the backup version (mutation of ListingPrefix).
ListingPrefixWithVersion(storePrefix) == storePrefix

\* prefix := path.Join(strings.Join(prefixTokens[:len(prefixTokens)-1], "/"))
ListingPrefix(storePrefix) == SubSeq(storePrefix, 1, Len(storePrefix) - 1)

\* strings.Split(snapName, "-") of the last token of a name.
SplitDash(token) ==
    CASE token = "Full-0-2-1" -> << "Full", "0", "2", "1" >>
      [] token = "Incr-3-4-2" -> << "Incr", "3", "4", "2" >>
      [] token = "Full-x-2-1" -> << "Full", "x", "2", "1" >>
      [] token = "Backup-1" -> << "Backup", "1" >>
      [] OTHER -> << token >>

\* strconv.ParseInt: -1 stands for its error.
ParseInt(digits) ==
    CASE digits = "0" -> 0
      [] digits = "1" -> 1
      [] digits = "2" -> 2
      [] digits = "3" -> 3
      [] digits = "4" -> 4
      [] OTHER -> -1

NoSnapshot ==
    [Kind |-> "", StartRevision |-> 0, LastRevision |-> 0, CreatedOn |-> 0,
     SnapDir |-> "", SnapName |-> "", Prefix |-> << >>]

\* ParseSnapshot(snapPath): the last token is the snapshot name (kind, start
\* revision, last revision, creation time); under the legacy version the token
\* before it is the snapshot directory; the rest is the prefix.
ParseSnapshot(snapPath) ==
    LET n == Len(snapPath)
        legacy == \E i \in 1 .. n : snapPath[i] = backupVersionV1
        current == \E i \in 1 .. n : snapPath[i] = backupVersionV2
        tokens == SplitDash(snapPath[n])
    IN  IF n < 2 \/ ~(legacy \/ current) \/ (legacy /\ n < 3) \/ Len(tokens) # 4
        THEN [err |-> TRUE, snap |-> NoSnapshot]
        ELSE IF \/ tokens[1] \notin {"Full", "Incr"}
                \/ ParseInt(tokens[2]) < 0
                \/ ParseInt(tokens[3]) < ParseInt(tokens[2])
                \/ ParseInt(tokens[4]) < 0
        THEN [err |-> TRUE, snap |-> NoSnapshot]
        ELSE [err |-> FALSE,
              snap |-> [Kind |-> tokens[1],
                        StartRevision |-> ParseInt(tokens[2]),
                        LastRevision |-> ParseInt(tokens[3]),
                        CreatedOn |-> ParseInt(tokens[4]),
                        SnapDir |-> IF legacy THEN snapPath[n - 1] ELSE "",
                        SnapName |-> snapPath[n],
                        Prefix |-> SubSeq(snapPath, 1, IF legacy THEN n - 2 ELSE n - 1)]]

\* path.Join(snap.Prefix, snap.SnapDir, snap.SnapName)
SnapPath(snap) ==
    PathJoin(<< snap.Prefix,
                IF snap.SnapDir = "" THEN << >> ELSE << snap.SnapDir >>,
                << snap.SnapName >> >>)

\* The order of the names as strings.
NamesInOrder == << NoTag, V1Incr, V2Bad, V2Full, Other >>
NameRank(name) == CHOOSE i \in 1 .. Len(NamesInOrder) : NamesInOrder[i] = name

\* SnapList.Less: creation time first, then the revision range, then the name.
Less(a, b) ==
    IF a.CreatedOn # b.CreatedOn THEN a.CreatedOn < b.CreatedOn
    ELSE IF a.StartRevision # b.StartRevision THEN a.StartRevision < b.StartRevision
    ELSE IF a.LastRevision # b.LastRevision THEN a.LastRevision < b.LastRevision
    ELSE NameRank(SnapPath(a)) < NameRank(SnapPath(b))

\* sort.Sort(snapList)
RECURSIVE SortSnapList(_)
SortSnapList(sl) ==
    IF sl = << >> THEN << >>
    ELSE LET rest == SortSnapList(SubSeq(sl, 1, Len(sl) - 1))
             x == sl[Len(sl)]
             before == {i \in 1 .. Len(rest) : ~Less(x, rest[i])}
             k == Cardinality(before)
         IN  SubSeq(rest, 1, k) \o << x >> \o SubSeq(rest, k + 1, Len(rest))

\* The blobs the service lists for ListBlobsFlatOptions{Prefix: &prefix}.
Matching(prefix) == {name \in objects : HasPrefix(name, prefix)}

\* The loop over the items appending what ParseSnapshot returned without
\* looking at its error (mutation of ProcessBlobItems).
RECURSIVE ProcessBlobItemsKeepsInvalid(_, _, _)
ProcessBlobItemsKeepsInvalid(sl, blobItems, prefix) ==
    IF blobItems = << >> THEN sl
    ELSE LET name == Head(blobItems)
             blobName == TrimPrefix(name, prefix)
             parsed == ParseSnapshot(PathJoin(<< prefix, blobName >>))
         IN  ProcessBlobItemsKeepsInvalid(
                 IF HasVersionTag(name) THEN Append(sl, parsed.snap) ELSE sl,
                 Tail(blobItems), prefix)

\* The loop over resp.Segment.BlobItems: a name with a version tag is parsed
\* and appended, or skipped with a warning when it does not parse.
RECURSIVE ProcessBlobItems(_, _, _)
ProcessBlobItems(sl, blobItems, prefix) ==
    IF blobItems = << >> THEN sl
    ELSE LET name == Head(blobItems)
             blobName == TrimPrefix(name, prefix)
             parsed == ParseSnapshot(PathJoin(<< prefix, blobName >>))
         IN  ProcessBlobItems(
                 IF HasVersionTag(name) /\ ~parsed.err THEN Append(sl, parsed.snap) ELSE sl,
                 Tail(blobItems), prefix)

\* The pages a pager may serve next: at most MaxPageLen of the matching
\* blobs, each once, in any order.
PageChoices(prefix) ==
    {page \in UNION {[1 .. n -> Matching(prefix)] : n \in 0 .. MaxPageLen} :
        \A i, j \in 1 .. Len(page) : i # j => page[i] # page[j]}

RECURSIVE CountListed(_, _)
CountListed(count, blobItems) ==
    IF blobItems = << >> THEN count
    ELSE CountListed([count EXCEPT ![Head(blobItems)] = @ + 1], Tail(blobItems))

TotalListed(count) ==
    LET RECURSIVE Sum(_)
        Sum(S) == IF S = {} THEN 0
                  ELSE LET n == CHOOSE n \in S : TRUE IN count[n] + Sum(S \ {n})
    IN  Sum(BlobNames)

Unlisted(count, prefix) == {n \in Matching(prefix) : count[n] = 0}

\* List starts: the listing prefix is derived and the pager created. The
\* service will serve the listing in some number of pages.
ListStart ==
    /\ lpc = "idle"
    /\ lpc' = "paging"
    /\ snapList' = << >>
    /\ fetches' = 0
    /\ \E k \in 1 .. MaxPages :
          /\ k * MaxPageLen >= Cardinality(Matching(ListingPrefix(a_prefix)))
          /\ pagerPages' = k
    /\ UNCHANGED << saveVars, clientVars, credVars, uriVars, a_prefix, objects, listed,
                    listRes, opRes >>

\* for pager.More() { resp, err := pager.NextPage(ctx); ... }: one page is
\* fetched and its items processed, or the fetch fails and List returns.
\* By its last page the service has listed every matching blob.
ListNextPage ==
    /\ lpc = "paging"
    /\ fetches < pagerPages
    /\ fetches' = fetches + 1
    /\ \/ /\ listRes' = [called |-> TRUE, err |-> TRUE, list |-> << >>]
          /\ lpc' = "done"
          /\ UNCHANGED << snapList, listed >>
       \/ \E page \in PageChoices(ListingPrefix(a_prefix)) :
            LET prefix == ListingPrefix(a_prefix)
                count == CountListed(listed, page)
            IN  /\ Cardinality(Unlisted(count, prefix))
                       <= (pagerPages - fetches') * MaxPageLen
                /\ TotalListed(count) <= Cardinality(Matching(prefix)) + MaxRepeats
                /\ listed' = count
                /\ snapList' = ProcessBlobItems(snapList, page, prefix)
                /\ UNCHANGED << lpc, listRes >>
    /\ UNCHANGED << saveVars, clientVars, credVars, uriVars, a_prefix, objects, pagerPages, opRes >>

\* List returning the list as it was collected (mutation of ListReturn).
ListReturnUnsorted ==
    /\ lpc = "paging"
    /\ fetches >= pagerPages
    /\ listRes' = [called |-> TRUE, err |-> FALSE, list |-> snapList]
    /\ lpc' = "done"
    /\ UNCHANGED << saveVars, clientVars, credVars, uriVars, a_prefix, objects, pagerPages, fetches,
                    listed, snapList, opRes >>

\* List returning after its first page, whatever pager.More() says
\* (mutation of ListReturn).
ListReturnAfterFirstPage ==
    /\ lpc = "paging"
    /\ fetches >= 1
    /\ listRes' = [called |-> TRUE, err |-> FALSE, list |-> SortSnapList(snapList)]
    /\ lpc' = "done"
    /\ UNCHANGED << saveVars, clientVars, credVars, uriVars, a_prefix, objects, pagerPages, fetches,
                    listed, snapList, opRes >>

\* pager.More() is false: sort.Sort(snapList); return snapList, nil
ListReturn ==
    /\ lpc = "paging"
    /\ fetches >= pagerPages
    /\ listRes' = [called |-> TRUE, err |-> FALSE, list |-> SortSnapList(snapList)]
    /\ lpc' = "done"
    /\ UNCHANGED << saveVars, clientVars, credVars, uriVars, a_prefix, objects, pagerPages, fetches,
                    listed, snapList, opRes >>

List == ListStart \/ ListNextPage \/ ListReturn

\* A store with either prefix on a container holding any of the blobs.
ListInit ==
    /\ SaveStart(1, 1)
    /\ ClientsIdle
    /\ CredentialsIdle
    /\ URIIdle
    /\ a_prefix \in StorePrefixes
    /\ objects \in SUBSET BlobNames
    /\ lpc = "idle"
    /\ pagerPages = 0
    /\ fetches = 0
    /\ listed = [n \in BlobNames |-> 0]
    /\ snapList = << >>
    /\ listRes = NoListResult
    /\ opRes = NoOpResult

ListSpec == ListInit /\ [][List]_vars

\* ======================================================== Fetch and Delete
\* The snapshots a caller holds: what a List of the container may have
\* returned at some time.
Snapshots == {ParseSnapshot(name).snap : name \in {V2Full, V1Incr, Other}}

\* Fetch(snap): the download stream of the blob, or the error of DownloadStream
\* (the blob does not exist, or the call failed).
Fetch(snap) ==
    /\ LET blobName == PathJoin(<< snap.Prefix,
                                   IF snap.SnapDir = "" THEN << >> ELSE << snap.SnapDir >>,
                                   << snap.SnapName >> >>)
       IN  \E callOk \in BOOLEAN :
             IF blobName \in objects /\ callOk
             THEN opRes' = [op |-> "Fetch", blobName |-> blobName, err |-> FALSE,
                            body |-> blobName]
             ELSE opRes' = [op |-> "Fetch", blobName |-> blobName, err |-> TRUE,
                            body |-> << >>]
    /\ UNCHANGED << saveVars, clientVars, credVars, uriVars, a_prefix, objects, lpc, pagerPages,
                    fetches, listed, snapList, listRes >>

\* Delete returning nil whatever blobClient.Delete returned (mutation of Delete).
DeleteIgnoresError(snap) ==
    /\ LET blobName == PathJoin(<< snap.Prefix,
                                   IF snap.SnapDir = "" THEN << >> ELSE << snap.SnapDir >>,
                                   << snap.SnapName >> >>)
       IN  \E callOk \in BOOLEAN :
             /\ opRes' = [op |-> "Delete", blobName |-> blobName, err |-> FALSE,
                          body |-> << >>]
             /\ IF blobName \in objects /\ callOk
                THEN objects' = objects \ {blobName}
                ELSE UNCHANGED objects
    /\ UNCHANGED << saveVars, clientVars, credVars, uriVars, a_prefix, lpc, pagerPages,
                    fetches, listed, snapList, listRes >>

\* Delete(snap): the blob is removed, or the error of blobClient.Delete is
\* returned (the blob does not exist, or the call failed).
Delete(snap) ==
    /\ LET blobName == PathJoin(<< snap.Prefix,
                                   IF snap.SnapDir = "" THEN << >> ELSE << snap.SnapDir >>,
                                   << snap.SnapName >> >>)
       IN  \E callOk \in BOOLEAN :
             IF blobName \in objects /\ callOk
             THEN /\ objects' = objects \ {blobName}
                  /\ opRes' = [op |-> "Delete", blobName |-> blobName, err |-> FALSE,
                               body |-> << >>]
             ELSE /\ UNCHANGED objects
                  /\ opRes' = [op |-> "Delete", blobName |-> blobName, err |-> TRUE,
                               body |-> << >>]
    /\ UNCHANGED << saveVars, clientVars, credVars, uriVars, a_prefix, lpc, pagerPages,
                    fetches, listed, snapList, listRes >>

\* A store on a container holding any of the blobs; no List is running.
ObjectInit ==
    /\ SaveStart(1, 1)
    /\ ClientsIdle
    /\ CredentialsIdle
    /\ URIIdle
    /\ a_prefix \in StorePrefixes
    /\ objects \in SUBSET BlobNames
    /\ lpc = "idle"
    /\ pagerPages = 0
    /\ fetches = 0
    /\ listed = [n \in BlobNames |-> 0]
    /\ snapList = << >>
    /\ listRes = NoListResult
    /\ opRes = NoOpResult

ObjectNext == \E snap \in Snapshots : Fetch(snap) \/ Delete(snap)

ObjectSpec == ObjectInit /\ [][ObjectNext]_vars

\* ======================================================= ConstructABSURI
AzureBlobStorageHostName == "blob.core.windows.net"

\* Values AZURE_EMULATOR_ENABLED may hold.
FlagValues ==
    {"1", "t", "T", "TRUE", "true", "True", "0", "f", "F", "FALSE", "false", "False",
     "", "yes", "tRuE", "2"}
\* Values AZURE_STORAGE_API_ENDPOINT may hold.
EndpointValues == {"", "http://localhost:10000"}
AccountNames == {"account", "devstoreaccount1"}

\* strconv.ParseBool
ParseBool(str) ==
    CASE str \in {"1", "t", "T", "TRUE", "true", "True"} -> [value |-> TRUE, err |-> FALSE]
      [] str \in {"0", "f", "F", "FALSE", "false", "False"} -> [value |-> FALSE, err |-> FALSE]
      [] OTHER -> [value |-> FALSE, err |-> TRUE]

\* ConstructABSURI taking a flag that is no boolean for false
\* (mutation of ConstructABSURI).
ConstructABSURIDefaultsOnInvalid(name) ==
    LET defaultURL == "https://" \o name \o "." \o AzureBlobStorageHostName
        isEmulator == ParseBool(emulatorEnabled)
    IN  IF emulatorEnabled = Unset
        THEN [called |-> TRUE, err |-> FALSE, url |-> defaultURL]
        ELSE IF ~isEmulator.value
        THEN [called |-> TRUE, err |-> FALSE, url |-> defaultURL]
        ELSE IF endpoint = Unset
        THEN [called |-> TRUE, err |-> TRUE, url |-> ""]
        ELSE [called |-> TRUE, err |-> FALSE, url |-> endpoint \o "/" \o name]

\* ConstructABSURI(accountName)
ConstructABSURI(name) ==
    LET defaultURL == "https://" \o name \o "." \o AzureBlobStorageHostName
        isEmulator == ParseBool(emulatorEnabled)
    IN  IF emulatorEnabled = Unset
        THEN [called |-> TRUE, err |-> FALSE, url |-> defaultURL]
        ELSE IF isEmulator.err
        THEN [called |-> TRUE, err |-> TRUE, url |-> ""]
        ELSE IF ~isEmulator.value
        THEN [called |-> TRUE, err |-> FALSE, url |-> defaultURL]
        ELSE IF endpoint = Unset
        THEN [called |-> TRUE, err |-> TRUE, url |-> ""]
        ELSE [called |-> TRUE, err |-> FALSE, url |-> endpoint \o "/" \o name]

\* NewABSSnapStore calls ConstructABSURI with the storage account.
BuildURI ==
    /\ ~uriRes.called
    /\ uriRes' = ConstructABSURI(accountName)
    /\ UNCHANGED << saveVars, clientVars, credVars, storeVars, emulatorEnabled, endpoint,
                    accountName >>

\* Any environment and any account.
URIInit ==
    /\ SaveStart(1, 1)
    /\ ClientsIdle
    /\ CredentialsIdle
    /\ StoreIdle
    /\ emulatorEnabled \in FlagValues \cup {Unset}
    /\ endpoint \in EndpointValues \cup {Unset}
    /\ accountName \in AccountNames
    /\ uriRes = NoURIResult

URISpec == URIInit /\ [][BuildURI]_vars

\* ================================================== fake container client
\* The container client of the test suite. Its calls are taken one at a time.

\* fakeABSContainerClient.NewBlockBlobClient(blobName): the client cached for
\* the name when the object exists and a client was made for it before;
\* otherwise a new client, which replaces the cached one.
NewBlockBlobClient(blobName) ==
    IF objectMap[blobName] # NoObject /\ blobClients[blobName] # NoClient
    THEN [client |-> blobClients[blobName],
          blobClients |-> blobClients,
          fakeClients |-> fakeClients]
    ELSE [client |-> Len(fakeClients) + 1,
          blobClients |-> [blobClients EXCEPT ![blobName] = Len(fakeClients) + 1],
          fakeClients |-> Append(fakeClients, [name |-> blobName, staging |-> << >>])]

\* fakeBlockBlobClient.StageBlock: the body is appended to the client's staging
\* area, whatever the block identifier.
StageBlock(clients, c, body) == [clients EXCEPT ![c].staging = @ \o body]

\* The chunks a worker may be uploading: chunks are claimed in the order they
\* were queued, by at most MaxParallel workers.
Uploadable ==
    {k \in (1 .. chunks) \ stagedChunks :
        Cardinality({j \in 1 .. (k - 1) : j \notin stagedChunks}) < MaxParallel}

\* Save queues the chunks of a snapshot for one blob name.
SaveOnFakeStart(blobName, n) ==
    /\ bpc \in {"idle", "done"}
    /\ saves < MaxSaves
    /\ saves' = saves + 1
    /\ bpc' = "stage"
    /\ target' = blobName
    /\ chunks' = n
    /\ stagedChunks' = {}
    /\ handed' = << >>
    /\ assembled' = << >>
    /\ UNCHANGED << saveVars, credVars, storeVars, uriVars, objectMap, blobClients,
                    fakeClients >>

\* uploadBlock for chunk k: blobClient := a.client.NewBlockBlobClient(blobName);
\* blobClient.StageBlock(...). The body of chunk k is written << k >>.
UploadBlockOnFake(k) ==
    /\ bpc = "stage"
    /\ k \in Uploadable
    /\ LET r == NewBlockBlobClient(target)
       IN  /\ blobClients' = r.blobClients
           /\ fakeClients' = StageBlock(r.fakeClients, r.client, << k >>)
           /\ handed' = Append(handed, r.client)
    /\ stagedChunks' = stagedChunks \cup {k}
    /\ UNCHANGED << saveVars, credVars, storeVars, uriVars, objectMap, bpc, target,
                    chunks, assembled, saves >>

\* Save, all chunks staged: blobClient := a.client.NewBlockBlobClient(blobName);
\* blobClient.CommitBlockList(...). The fake's CommitBlockList stores the
\* address of the client's staging field as the object and then empties
\* that field.
CommitOnFake ==
    /\ bpc = "stage"
    /\ stagedChunks = 1 .. chunks
    /\ LET r == NewBlockBlobClient(target)
       IN  /\ blobClients' = r.blobClients
           /\ assembled' = r.fakeClients[r.client].staging
           /\ objectMap' = [objectMap EXCEPT
                               ![target] = [kind |-> "staging", client |-> r.client]]
           /\ fakeClients' = [r.fakeClients EXCEPT ![r.client].staging = << >>]
           /\ handed' = Append(handed, r.client)
    /\ bpc' = "done"
    /\ UNCHANGED << saveVars, credVars, storeVars, uriVars, target, chunks,
                    stagedChunks, saves >>

\* Delete of an object that exists: blobClient := a.client.NewBlockBlobClient(
\* blobName); blobClient.Delete(...) removes the object from the map.
DeleteOnFake(blobName) ==
    /\ bpc \in {"idle", "done"}
    /\ objectMap[blobName] # NoObject
    /\ LET r == NewBlockBlobClient(blobName)
       IN  /\ blobClients' = r.blobClients
           /\ fakeClients' = r.fakeClients
    /\ objectMap' = [objectMap EXCEPT ![blobName] = NoObject]
    /\ UNCHANGED << saveVars, credVars, storeVars, uriVars, bpc, target, chunks,
                    stagedChunks, handed, assembled, saves >>

\* A fake container client holding any of the objects, no client made yet.
ClientInit ==
    /\ SaveStart(1, 1)
    /\ CredentialsIdle
    /\ StoreIdle
    /\ URIIdle
    /\ objectMap \in [TargetNames -> {NoObject, GivenObject}]
    /\ blobClients = [n \in TargetNames |-> NoClient]
    /\ fakeClients = << >>
    /\ bpc = "idle"
    /\ target = "Full-1-2"
    /\ chunks = 0
    /\ stagedChunks = {}
    /\ handed = << >>
    /\ assembled = << >>
    /\ saves = 0

ClientNext ==
    \/ \E blobName \in TargetNames, n \in 1 .. MaxSize : SaveOnFakeStart(blobName, n)
    \/ \E k \in 1 .. MaxSize : UploadBlockOnFake(k)
    \/ CommitOnFake
    \/ \E blobName \in TargetNames : DeleteOnFake(blobName)

ClientSpec == ClientInit /\ [][ClientNext]_vars

\* ================================================================ claims
\* C1: all-or-nothing Save. Once a StageBlock call has returned an error,
\* CommitBlockList is never invoked, the target object stays as it was, and
\* Save, when it returns, returns the chunk error.
C1_AllOrNothing ==
    stageFailed =>
        /\ commitCalls = << >>
        /\ blob = Prior
        /\ pc # "commit"
        /\ (pc = "done" => saveErr = "chunk")

\* A Save that returned after one StageBlock failed and another block was staged.
C1_Witness ==
    /\ pc = "done"
    /\ stageFailed
    /\ staged # {}
    /\ saveErr = "chunk"

\* C2: whenever Save invokes commit, the list it passes holds exactly the
\* identifiers of the sequence numbers 1, 2, ..., N in that order (N the number
\* of chunks submitted), pairwise distinct, whatever order the uploads
\* completed in.
C2_CommitOrder ==
    \A i \in 1 .. Len(commitCalls) :
        LET blockList == commitCalls[i]
        IN  /\ Len(blockList) = Len(submitted)
            /\ \A k \in 1 .. Len(blockList) : blockList[k] = BlockID(submitted[k].id)
            /\ \A k \in 1 .. Len(blockList) : submitted[k].id = k
            /\ \A j, k \in 1 .. Len(blockList) : j # k => blockList[j] # blockList[k]

\* A commit after uploads that completed out of sequence order.
C2_Witness ==
    /\ Len(commitCalls) = 1
    /\ Len(commitCalls[1]) >= 3
    /\ outOfOrder

\* C3: cancellation leak-freedom. No worker is ever blocked sending its result
\* (resCh has room), and once a StageBlock call has failed, Save eventually
\* returns the chunk error with every spawned worker exited and without having
\* invoked commit.
C3_CancellationLeakFree ==
    /\ [](\A w \in Workers : worker[w].state = "send" => Len(resCh) < noOfChunks)
    /\ (stageFailed ~>
            (/\ pc = "done"
             /\ saveErr = "chunk"
             /\ AllWorkersExited
             /\ commitCalls = << >>))

\* A failed Save with several workers that left chunks unclaimed in the queue.
C3_Witness ==
    /\ pc = "done"
    /\ stageFailed
    /\ spawned >= 2
    /\ noOfChunks >= 3
    /\ chunkUploadCh # << >>
    /\ AllWorkersExited
    /\ commitCalls = << >>

\* C4: at most maxParallelChunkUploads chunks are in flight (being uploaded by
\* a worker) at once.
C4_BoundedInFlight ==
    Cardinality(InFlight) <= maxParallelChunkUploads

\* As many uploads in flight as the parallelism allows, more than one.
C4_Witness ==
    /\ maxParallelChunkUploads >= 2
    /\ Cardinality(InFlight) = maxParallelChunkUploads

\* The stream was staged in full: Save got past os.CreateTemp and io.Copy.
Staged == pc \notin {"start", "copy"} /\ saveErr \notin {"tempfile", "copy"}

\* C5: for a staged size of 0, Save makes no StageBlock call, never commits
\* more than once, and terminates having made exactly one commit, of the empty
\* block list.
C5_EmptySnapshot ==
    /\ []((Staged /\ size = 0) =>
            /\ noOfChunks = 0
            /\ ~stageCalled
            /\ submitted = << >>
            /\ Len(commitCalls) <= 1
            /\ (pc = "done" => commitCalls = << << >> >>))
    /\ ((Staged /\ size = 0) ~>
            (pc = "done" /\ commitCalls = << << >> >> /\ ~stageCalled))

\* An empty snapshot committed, its workers gone.
C5_Witness ==
    /\ Staged
    /\ size = 0
    /\ pc = "done"
    /\ saveErr = "nil"
    /\ blob = [state |-> "committed", blocks |-> << >>]
    /\ spawned >= 1
    /\ AllWorkersExited

\* ceil(s / c), from its definition: the least n with n * c >= s.
Ceil(s, c) == CHOOSE n \in 0 .. s : n * c >= s /\ \A m \in 0 .. s : m * c >= s => n <= m

\* C6: the chunk count is ceil(size / chunkSize); the enumeration loop submits
\* exactly that many chunks, the k-th at offset (k-1) * chunkSize with sequence
\* index k, and its send never finds the queue full.
C6_ChunkArithmetic ==
    (Staged /\ pc # "chunks") =>
        /\ noOfChunks = Ceil(size, chunkSize)
        /\ \A k \in 1 .. Len(submitted) :
              submitted[k] = [offset |-> (k - 1) * chunkSize, size |-> chunkSize, id |-> k]
        /\ Len(submitted) <= noOfChunks
        /\ (pc = "enqueue" /\ offset < size => Len(chunkUploadCh) < noOfChunks)
        /\ (pc \notin {"spawn", "enqueue"} => Len(submitted) = noOfChunks)

\* All chunks of a snapshot whose size is no multiple of the chunk size submitted.
C6_Witness ==
    /\ pc = "collect"
    /\ chunkSize > 1
    /\ size % chunkSize # 0
    /\ size > chunkSize
    /\ Len(submitted) = noOfChunks

\* C7: when Save returns, the caller's stream has been closed, on every path.
C7_StreamClosed ==
    /\ (pc = "done" => rcClosed)
    /\ (pc \notin {"start", "copy"} => rcClosed)

\* Save returned early, on the failure to create the temporary file.
C7_Witness ==
    /\ pc = "done"
    /\ saveErr = "tempfile"
    /\ rcClosed

\* C8: when Save returns, no temporary file it created remains; and the file
\* is removed only once every worker has exited, at Save's return.
C8_TempFileRemoved ==
    /\ (pc = "done" => tmpfile # "open")
    /\ (pc = "done" /\ saveErr # "tempfile" => tmpfile = "removed")
    /\ (tmpfile = "removed" => pc = "done" /\ AllWorkersExited)

\* Save returned a chunk error, its file removed after its workers exited.
C8_Witness ==
    /\ pc = "done"
    /\ saveErr = "chunk"
    /\ tmpfile = "removed"
    /\ \E w \in Workers : worker[w].state = "exited"

\* C9: the modification-time query and credential resolution (of the same,
\* unprefixed namespace) take the same source as authoritative, whichever
\* variables are set and files present: when both succeed, the time reported
\* is that of the source the credentials came from.
C9_SameSource ==
    (/\ credRes.called
     /\ lmRes.called
     /\ credRes.prefix = ""
     /\ ~credRes.err
     /\ ~lmRes.err) => credRes.source = lmRes.source

IsSet(name) == env[name] # Unset

\* C10: resolution takes the first source present, in the order JSON file,
\* JSON file of the directory, per-field files of the directory, and returns
\* that source's credentials unmerged or fails; with no variable set it fails.
C10_ResolutionOrder ==
    credRes.called =>
        LET jsonVar == credRes.prefix \o absCredentialJSONFile
            dirVar == credRes.prefix \o absCredentialDirectory
            creds == [StorageAccount |-> credRes.account, SecretKey |-> credRes.key]
        IN  /\ IsSet(jsonVar) =>
                /\ credRes.source = [kind |-> "jsonfile", var |-> jsonVar]
                /\ (credRes.err <=> jsonFile # "valid")
                /\ (~credRes.err => creds = JSONFileCredentials)
            /\ (~IsSet(jsonVar) /\ IsSet(dirVar) /\ dirJSON # "none") =>
                /\ credRes.source = [kind |-> "dirjson", var |-> dirVar]
                /\ (credRes.err <=> dirJSON # "valid")
                /\ (~credRes.err => creds = DirJSONCredentials)
            /\ (~IsSet(jsonVar) /\ IsSet(dirVar) /\ dirReadable /\ dirJSON = "none") =>
                /\ credRes.source = [kind |-> "dirfiles", var |-> dirVar]
                /\ (~credRes.err =>
                        creds = [StorageAccount |-> "accountOfFiles", SecretKey |-> "keyOfFiles"])
            /\ (~IsSet(jsonVar) /\ IsSet(dirVar) /\ ~dirReadable) => credRes.err
            /\ (~IsSet(jsonVar) /\ ~IsSet(dirVar)) =>
                /\ credRes.err
                /\ credRes.source = NoSource

\* Both variables set and every source valid: the JSON file's credentials win.
C10_Witness ==
    /\ credRes.called
    /\ IsSet(credRes.prefix \o absCredentialJSONFile)
    /\ IsSet(credRes.prefix \o absCredentialDirectory)
    /\ dirJSON = "valid"
    /\ storageAccount = "present"
    /\ storageKey = "present"
    /\ ~credRes.err
    /\ credRes.account = JSONFileCredentials.StorageAccount
    /\ credRes.key = JSONFileCredentials.SecretKey

\* C11: a source that is present but cannot be read or parsed (the file the
\* JSON-file variable names, the directory, or the JSON file found in the
\* directory) makes resolution fail at that source; the per-field files are
\* consulted only when the directory is readable and holds no JSON file.
C11_NoFallbackOnBadSource ==
    credRes.called =>
        LET jsonVar == credRes.prefix \o absCredentialJSONFile
            dirVar == credRes.prefix \o absCredentialDirectory
        IN  /\ (IsSet(jsonVar) /\ jsonFile # "valid") =>
                /\ credRes.err
                /\ credRes.source = [kind |-> "jsonfile", var |-> jsonVar]
            /\ (~IsSet(jsonVar) /\ IsSet(dirVar) /\ (~dirReadable \/ dirJSON = "malformed")) =>
                /\ credRes.err
                /\ credRes.source = [kind |-> "dirjson", var |-> dirVar]
            /\ credRes.source.kind = "dirfiles" =>
                /\ ~IsSet(jsonVar)
                /\ dirReadable
                /\ dirJSON = "none"
            /\ credRes.err => credRes.account = "" /\ credRes.key = ""

\* The file of the JSON-file variable is malformed while the directory holds
\* a valid JSON file and both per-field files: resolution failed.
C11_Witness ==
    /\ credRes.called
    /\ IsSet(credRes.prefix \o absCredentialJSONFile)
    /\ IsSet(credRes.prefix \o absCredentialDirectory)
    /\ jsonFile = "malformed"
    /\ dirJSON = "valid"
    /\ storageAccount = "present"
    /\ storageKey = "present"
    /\ credRes.err
    /\ credRes.source.kind = "jsonfile"

\* C12: credentials taken from the per-field files need both files: resolution
\* fails when storageAccount or storageKey is missing or empty, succeeds when
\* both hold a value, and never returns an empty account or an empty secret.
C12_BothFilesRequired ==
    (credRes.called /\ credRes.source.kind = "dirfiles") =>
        /\ (credRes.err <=> (storageAccount # "present" \/ storageKey # "present"))
        /\ (~credRes.err =>
                /\ credRes.account = "accountOfFiles"
                /\ credRes.key = "keyOfFiles"
                /\ credRes.account # ""
                /\ credRes.key # "")

\* Only storageAccount is in the directory: resolution failed.
C12_Witness ==
    /\ credRes.called
    /\ credRes.source.kind = "dirfiles"
    /\ storageAccount = "present"
    /\ storageKey = "missing"
    /\ credRes.err

\* The name of a snapshot of the result, and whether List keeps a listed name.
Parses(name) == HasVersionTag(name) /\ ~ParseSnapshot(name).err
Entries(list, name) == {i \in 1 .. Len(list) : SnapPath(list[i]) = name}

C14_MalformedSkipped ==
    /\ []((lpc = "done" /\ ~listRes.err) =>
            /\ \A i \in 1 .. Len(listRes.list) :
                  LET name == SnapPath(listRes.list[i])
                  IN  /\ name \in BlobNames
                      /\ listed[name] > 0
                      /\ HasVersionTag(name)
                      /\ ParseSnapshot(name) = [err |-> FALSE, snap |-> listRes.list[i]]
            /\ \A name \in BlobNames :
                  (listed[name] > 0 /\ Parses(name)) => Entries(listRes.list, name) # {}
            /\ \A name \in BlobNames :
                  ~Parses(name) => Entries(listRes.list, name) = {})
    /\ [][(listRes'.err /\ ~listRes.err) =>
            (fetches' = fetches + 1 /\ snapList' = snapList /\ listed' = listed)]_vars

\* A listing that served a name that does not parse and a name without a
\* version tag next to a snapshot, and returned the snapshot.
C14_Witness ==
    /\ lpc = "done"
    /\ ~listRes.err
    /\ listed[V2Bad] > 0
    /\ listed[NoTag] > 0
    /\ listed[V2Full] > 0
    /\ Len(listRes.list) = 1

\* The sequences holding the items of sl in another order.
Reorderings(sl) ==
    {[i \in 1 .. Len(sl) |-> sl[q[i]]] :
        q \in {f \in [1 .. Len(sl) -> 1 .. Len(sl)] :
                  \A i, j \in 1 .. Len(sl) : i # j => f[i] # f[j]}}

\* C15: the list List returns is non-decreasing under the snapshot order,
\* holds the items it collected, and does not depend on the order in which
\* the pages served them: had the same items come in any other order (as on
\* a later List of the unchanged container), the same sequence would be
\* returned.
C15_SortedAndStable ==
    (lpc = "done" /\ ~listRes.err) =>
        /\ \A i, j \in 1 .. Len(listRes.list) :
              i < j => ~Less(listRes.list[j], listRes.list[i])
        /\ listRes.list \in Reorderings(snapList)
        /\ \A other \in Reorderings(snapList) : SortSnapList(other) = listRes.list

\* Three snapshots served out of order, two of them equal in creation time
\* and revisions: the list returned is not the list collected.
C15_Witness ==
    /\ lpc = "done"
    /\ ~listRes.err
    /\ Len(listRes.list) >= 3
    /\ listRes.list # snapList
    /\ listed[V2Full] > 0
    /\ listed[Other] > 0
    /\ listed[V1Incr] > 0

\* C16: List lists under a.prefix without its last token, the backup version.
\* Every snapshot of the container under that prefix is returned, whichever
\* version tag it was written under, so a legacy and a current snapshot of
\* the same logical prefix come in one List; nothing outside the prefix is
\* returned.
C16_PrefixBackCompat ==
    (lpc = "done" /\ ~listRes.err) =>
        LET logical == SubSeq(a_prefix, 1, Len(a_prefix) - 1)
        IN  /\ \A name \in objects :
                  (HasPrefix(name, logical) /\ Parses(name))
                      => Entries(listRes.list, name) # {}
            /\ \A i \in 1 .. Len(listRes.list) :
                  /\ HasPrefix(SnapPath(listRes.list[i]), logical)
                  /\ SnapPath(listRes.list[i]) \in objects

\* A store with prefix etcd/v2 on a container holding a current and a legacy
\* snapshot under etcd and a snapshot of another instance: List returned the
\* two, the legacy one with its snapshot directory.
C16_Witness ==
    /\ lpc = "done"
    /\ ~listRes.err
    /\ a_prefix = << "etcd", "v2" >>
    /\ {V2Full, V1Incr, Other} \subseteq objects
    /\ Len(listRes.list) = 2
    /\ listRes.list[1].Prefix = << "etcd", "v2" >>
    /\ listRes.list[1].SnapDir = ""
    /\ listRes.list[2].Prefix = << "etcd", "v1" >>
    /\ listRes.list[2].SnapDir = "Backup-1"

\* C17: a Fetch or Delete of a snapshot whose blob is not in the container
\* returns an error; a Fetch, and any call that returns an error, leaves the
\* container as it was; a Delete that returns nil has removed the blob named
\* join(prefix, snapDir, snapName), which was there, and no other. Stated of
\* every step, opRes' being the result of the call the step makes.
C17_NotFoundReported ==
    [][LET name == opRes'.blobName
       IN  /\ \E snap \in Snapshots :
                 name = snap.Prefix
                          \o (IF snap.SnapDir = "" THEN << >> ELSE << snap.SnapDir >>)
                          \o << snap.SnapName >>
           /\ name \notin objects => (opRes'.err /\ objects' = objects)
           /\ opRes'.err => objects' = objects
           /\ opRes'.op = "Fetch" => objects' = objects
           /\ (opRes'.op = "Fetch" /\ ~opRes'.err) => opRes'.body = name
           /\ (opRes'.op = "Delete" /\ ~opRes'.err) =>
                 (name \in objects /\ objects' = objects \ {name})]_vars

\* A Delete of the legacy snapshot, which is not in the container, returned
\* an error; the other blobs are still there.
C17_Witness ==
    /\ opRes.op = "Delete"
    /\ opRes.err
    /\ opRes.blobName = V1Incr
    /\ V1Incr \notin objects
    /\ {V2Full, V2Bad} \subseteq objects

\* C18: with the emulator flag unset, or set to a value that reads as false,
\* ConstructABSURI returns the production endpoint of the account; a flag
\* that is no boolean is an error; a flag that reads as true gives the
\* emulator endpoint followed by "/" and the account, and is an error when
\* the emulator endpoint variable is unset. An error comes with no URL.
C18_EndpointConstruction ==
    uriRes.called =>
        LET production == "https://" \o accountName \o ".blob.core.windows.net"
            readsTrue == emulatorEnabled \in {"1", "t", "T", "TRUE", "true", "True"}
            readsFalse == emulatorEnabled \in {"0", "f", "F", "FALSE", "false", "False"}
        IN  /\ emulatorEnabled = Unset => (~uriRes.err /\ uriRes.url = production)
            /\ readsFalse => (~uriRes.err /\ uriRes.url = production)
            /\ (emulatorEnabled # Unset /\ ~readsTrue /\ ~readsFalse) => uriRes.err
            /\ (readsTrue /\ endpoint # Unset) =>
                  (~uriRes.err /\ uriRes.url = endpoint \o "/" \o accountName)
            /\ (readsTrue /\ endpoint = Unset) => uriRes.err
            /\ uriRes.err => uriRes.url = ""

\* The flag is set to "yes" and the emulator endpoint is set: an error.
C18_Witness ==
    /\ uriRes.called
    /\ emulatorEnabled = "yes"
    /\ endpoint = "http://localhost:10000"
    /\ uriRes.err

\* C19: once the cancellation signal is raised no worker claims a chunk: no
\* worker goes from its select to an upload, and the work queue keeps the
\* chunks it holds.
C19_NoClaimAfterCancel ==
    [][cancelCh =>
          /\ chunkUploadCh' = chunkUploadCh
          /\ \A w \in Workers :
                worker[w].state = "select" => worker'[w].state # "uploading"]_vars

\* The submitted chunks that still sit in the work queue.
Unclaimed == {chunkUploadCh[i].id : i \in 1 .. Len(chunkUploadCh)}

\* C20 as stated: when Save has returned, every chunk that was submitted to
\* the work queue has exactly one result.
C20_ExactlyOneResult ==
    pc = "done" =>
        \A k \in 1 .. Len(submitted) : produced[submitted[k].id] = 1

\* C20 as amended: a result is produced at most once per submitted chunk and
\* for submitted chunks only; when Save has returned, every submitted chunk
\* has exactly one result or, a worker never having claimed it, still sits
\* in the work queue with none; after a Save in which no chunk failed, every
\* submitted chunk has exactly one.
C20_AtMostOneResult ==
    /\ \A id \in DOMAIN produced :
          /\ produced[id] <= 1
          /\ produced[id] = 1 => \E k \in 1 .. Len(submitted) : submitted[k].id = id
    /\ pc = "done" =>
          \A k \in 1 .. Len(submitted) :
              LET id == submitted[k].id
              IN  /\ id \in Unclaimed => produced[id] = 0
                  /\ id \notin Unclaimed => produced[id] = 1
    /\ (pc = "done" /\ saveErr \in {"nil", "commit"}) =>
          \A k \in 1 .. Len(submitted) : produced[submitted[k].id] = 1

\* A Save returned the error of a chunk; another chunk has its one result
\* and a third was never claimed and has none.
C20_Witness ==
    /\ pc = "done"
    /\ saveErr = "chunk"
    /\ Len(submitted) >= 3
    /\ \E k \in 1 .. Len(submitted) :
          submitted[k].id \in Unclaimed /\ produced[submitted[k].id] = 0
    /\ \E k \in 1 .. Len(submitted) :
          produced[submitted[k].id] = 1 /\ snapshotErr.chunk.id # submitted[k].id

\* The number of results sent into resCh for the chunks 1 .. n.
RECURSIVE ProducedUpTo(_)
ProducedUpTo(n) == IF n = 0 THEN 0 ELSE produced[n] + ProducedUpTo(n - 1)

\* C21: the collector raises the cancellation signal exactly once, on the
\* first failed result it receives, and never replaces that result; it
\* returns the error only when every result produced so far has been received
\* and no upload is in flight; and the chunk error Save returns carries the
\* sequence index and the offset of the chunk of that first failed result,
\* which is a submitted chunk that was not staged.
C21_FirstErrorReturned ==
    [][/\ cancelCloses' <= 1
       /\ cancelCh' <=> (cancelCloses' = 1)
       /\ (cancelCloses' = 1) <=> (snapshotErr' # NoResult)
       /\ snapshotErr' = NoResult => received' <= Cardinality(staged')
       /\ (snapshotErr = NoResult /\ snapshotErr' # NoResult) =>
             /\ resCh # << >>
             /\ snapshotErr' = Head(resCh)
             /\ snapshotErr'.err # "nil"
             /\ received' = received + 1
             /\ cancelCloses' = cancelCloses + 1
       /\ snapshotErr # NoResult =>
             /\ snapshotErr' = snapshotErr
             /\ cancelCloses' = cancelCloses
       /\ (pc = "collect" /\ pc' # "collect" /\ snapshotErr # NoResult) =>
             /\ received = ProducedUpTo(MaxSize)
             /\ \A w \in Workers : worker[w].state \notin {"uploading", "send"}
       /\ (pc' = "done" /\ snapshotErr' # NoResult) =>
             /\ saveErr' = "chunk"
             /\ errChunk' = [id |-> snapshotErr'.chunk.id,
                             offset |-> snapshotErr'.chunk.offset]
             /\ errChunk'.id \in 1 .. Len(submitted')
             /\ submitted'[errChunk'.id].id = errChunk'.id
             /\ submitted'[errChunk'.id].offset = errChunk'.offset
             /\ errChunk'.offset = (errChunk'.id - 1) * chunkSize'
             /\ ~\E s \in staged' : s.id = BlockID(errChunk'.id)
       /\ saveErr' = "chunk" => (pc' = "done" /\ snapshotErr' # NoResult)]_vars

\* A Save has returned the error of chunk 2 (offset 1): the collector raised
\* the signal once and took a further result after the failed one.
C21_Witness ==
    /\ pc = "done"
    /\ saveErr = "chunk"
    /\ cancelCloses = 1
    /\ drained >= 1
    /\ errChunk = [id |-> 2, offset |-> 1]

\* C22: the clients NewBlockBlobClient hands to one Save for its blob name
\* are one and the same client, and the staging area the commit of that Save
\* finds holds the chunks its workers staged, each once.
C22_ClientsShared ==
    /\ \A i, j \in DOMAIN handed : handed[i] = handed[j]
    /\ bpc = "done" =>
          /\ Len(assembled) = chunks
          /\ {assembled[i] : i \in DOMAIN assembled} = 1 .. chunks

\* The identifiers of the blocks staged so far.
StagedIDs == {s.id : s \in staged}

\* C23: a block is staged under the fixed-width encoding of
\* (offset / chunkSize) + 1, which is the sequence index of the submitted chunk
\* at that offset; and when commit is invoked the staged identifiers are
\* exactly those of 1 .. N, the ones the commit lists, one block each.
C23_StagedMatchesCommitted ==
    /\ \A s \in staged :
          /\ s.id = Base64Encode(Sprintf010d((s.offset \div chunkSize) + 1))
          /\ \E k \in 1 .. Len(submitted) :
                /\ submitted[k].offset = s.offset
                /\ submitted[k].id = (s.offset \div chunkSize) + 1
    /\ (pc = "commit" \/ commitCalls # << >>) =>
          /\ StagedIDs = {Base64Encode(Sprintf010d(k)) : k \in 1 .. noOfChunks}
          /\ Cardinality(staged) = noOfChunks
    /\ \A i \in 1 .. Len(commitCalls) :
          /\ StagedIDs = {commitCalls[i][k] : k \in 1 .. Len(commitCalls[i])}
          /\ Len(commitCalls[i]) = Cardinality(staged)

\* Commit was invoked for three chunks whose uploads completed out of
\* sequence order.
C23_Witness ==
    /\ pc = "done"
    /\ Len(commitCalls) = 1
    /\ noOfChunks = 3
    /\ Cardinality(staged) = 3
    /\ outOfOrder

\* The byte range [from, to) staged for the chunk with sequence index k.
StagedRange(k) ==
    LET s == CHOOSE s \in staged : s.id = BlockID(k)
    IN  [from |-> s.offset, to |-> s.offset + s.size]

\* The bytes staged for the chunks 1 .. n together.
RECURSIVE StagedBytes(_)
StagedBytes(n) ==
    IF n = 0 THEN 0 ELSE (StagedRange(n).to - StagedRange(n).from) + StagedBytes(n - 1)

\* C24: every staged range is [(k-1)*C, min(k*C, S)) for the index k of its
\* chunk, non-empty and no longer than C; and when commit is invoked the
\* ranges of the chunks 1 .. N partition [0, S): each chunk has its one range,
\* the ranges are pairwise disjoint, only the last may be shorter than C, and
\* their lengths sum to S.
C24_RangesPartition ==
    /\ \A s \in staged :
          \E k \in 1 .. noOfChunks :
              /\ s.id = BlockID(k)
              /\ s.offset = (k - 1) * chunkSize
              /\ s.offset + s.size = (IF k * chunkSize < size THEN k * chunkSize ELSE size)
              /\ s.size >= 1
              /\ s.size <= chunkSize
    /\ (pc = "commit" \/ commitCalls # << >>) =>
          /\ \A k \in 1 .. noOfChunks :
                Cardinality({s \in staged : s.id = BlockID(k)}) = 1
          /\ \A j, k \in 1 .. noOfChunks :
                j < k => StagedRange(j).to <= StagedRange(k).from
          /\ \A k \in 1 .. noOfChunks :
                (StagedRange(k).to - StagedRange(k).from < chunkSize) => k = noOfChunks
          /\ \A b \in 0 .. (size - 1) :
                \E k \in 1 .. noOfChunks :
                    StagedRange(k).from <= b /\ b < StagedRange(k).to
          /\ StagedBytes(noOfChunks) = size

\* Commit was invoked for a snapshot of 3 bytes in chunks of 2: the last
\* range is shorter than the chunk size.
C24_Witness ==
    /\ pc = "done"
    /\ Len(commitCalls) = 1
    /\ size = 3
    /\ chunkSize = 2
    /\ \E s \in staged : s.offset = 2 /\ s.size = 1

====
